---- MODULE Spec2Model ----
(***************************************************************************)
(* Model of YaMicroBatcher (src/src/ya_micro_batcher.ts).                  *)
(*                                                                         *)
(* One YaMicroBatcher instance driven by a single-threaded event loop.     *)
(* Every action is one run-to-completion piece of JavaScript: a public     *)
(* method up to its first suspension, a timer callback, or the resumption  *)
(* of processJobs after the batchProcessor promise settles.                *)
(***************************************************************************)
EXTENDS Integers, Sequences, FiniteSets, TLC

\* ---------------------------------------------------------------- bounds
\* number of jobs submit may accept in one behaviour
MaxJobs == 3
\* largest configured batchSize explored
MaxBatchSize == 2
\* number of distinct timer handles
MaxTimers == 2

\* ------------------------------------------------------- program constants
\* calculateMemory divides the byte length by 1024 twice
BytesPerMB == 1048576
\* JSON.stringify([job]) adds "[" and "]" to the job's own serialisation
ArrayBrackets == 2

\* serialised sizes (bytes) of the payloads that are submitted
PayloadBytes == {524286, 1048574}
\* configured memoryLimit values (MB)
MemoryLimits == {1}

\* line 64: the cap written in the constructor's batchTimeout expression
TimeoutCap == 100000
\* README, Configuration Options: batchTimeout default
DefaultBatchTimeout == 1000
\* batchTimeout of the configuration the tests construct
TestBatchTimeout == 1000
\* config.batchTimeout left out (undefined)
Undefined == -1
\* configured batchTimeout values
TimeoutConfigs == {Undefined, 0, 1, 1000, 100000, 100001}

JobIds == 1..MaxJobs
TimerIds == 1..MaxTimers
NoTimer == 0

VARIABLES
  cfgTimeout,               \* config.batchTimeout as passed to the constructor
  batchTimeout,             \* this.batchTimeout
  batchSize,                \* this.batchSize
  memoryLimit,              \* this.memoryLimit (MB)
  autoProcessOnMemoryLimit, \* this.autoProcessOnMemoryLimit
  jobs,                     \* this.jobs: insertion-ordered Map, as a sequence of [id, bytes]
  currentMemory,            \* this.currentMemory, in bytes (MB * BytesPerMB)
  finishedJobs,             \* this.finishedJobs: set of job ids
  timeoutId,                \* this.timeoutId: a timer handle or NoTimer (null)
  shutDown,                 \* this.shutDown
  isProcessing,             \* this.isProcessing
  armed,                    \* timers pending in the event loop (setTimeout not yet fired or cleared)
  inflight,                 \* processJobs invocations suspended at the await of line 198
  nextId,                   \* generateUUID: next fresh identifier
  processorCalls,           \* the snapshots batchProcessor was called with, each as its key sequence
  stopCalled,               \* history: stop() has been called
  discarded,                \* history: ids that were in this.jobs when stop() replaced it
  ret                       \* outcome of the operation performed by the last step

vars == <<cfgTimeout, batchTimeout, batchSize, memoryLimit, autoProcessOnMemoryLimit, jobs, currentMemory,
          finishedJobs, timeoutId, shutDown, isProcessing, armed, inflight,
          nextId, processorCalls, stopCalled, discarded, ret>>

config == <<cfgTimeout, batchTimeout, batchSize, memoryLimit, autoProcessOnMemoryLimit>>

\* ---------------------------------------------------------------- helpers
RECURSIVE SeqIds(_)
SeqIds(s) == IF s = <<>> THEN {} ELSE {Head(s).id} \cup SeqIds(Tail(s))

\* the keys of the Map js, in insertion order
Keys(js) == [i \in 1..Len(js) |-> js[i].id]

\* the elements of a sequence of ids
Range(s) == {s[i] : i \in 1..Len(s)}

RECURSIVE Flatten(_)
Flatten(ss) == IF ss = <<>> THEN {} ELSE Range(Head(ss)) \cup Flatten(Tail(ss))

Min(S) == CHOOSE x \in S : \A y \in S : x <= y

\* ids submit has accepted so far
accepted == 1..(nextId - 1)
\* ids that were part of some snapshot passed to batchProcessor
handed == Flatten(processorCalls)
\* ids currently in this.jobs
pending == SeqIds(jobs)
\* processJobs invocations whose batchProcessor promise has not settled yet
outstanding == {inv \in inflight : inv.pc = "await"}

\* utils: calculateMemory([job]), scaled by BytesPerMB
calculateMemory(bytes) == bytes + ArrayBrackets

\* jobCount()
jobCount == IF isProcessing THEN 0 ELSE Len(jobs)

Ret(op, res) == [op |-> op, res |-> res]

\* ------------------------------------------------------------ constructor
\* line 64: config.batchTimeout ?? config.batchTimeout > 100000 ? 100000 : config.batchTimeout
\* which JavaScript parses as (a ?? (a > 100000)) ? 100000 : a.  For a number
\* a the condition is a itself, true unless a is 0; for undefined it is
\* undefined > 100000, false.
constructorBatchTimeout(a) ==
  LET cond == IF a # Undefined THEN a # 0 ELSE FALSE
  IN  IF cond THEN TimeoutCap ELSE a

\* ------------------------------------------------------------------- Init
\* state after the constructor and the field initialisers, for a configured
\* batchTimeout drawn from timeouts
InitWith(timeouts) ==
  /\ cfgTimeout \in timeouts
  /\ batchTimeout = constructorBatchTimeout(cfgTimeout)
  /\ batchSize \in 1..MaxBatchSize
  /\ memoryLimit \in MemoryLimits
  /\ autoProcessOnMemoryLimit \in BOOLEAN
  /\ jobs = <<>>
  /\ currentMemory = 0
  /\ finishedJobs = {}
  /\ timeoutId = NoTimer
  /\ shutDown = FALSE
  /\ isProcessing = FALSE
  /\ armed = {}
  /\ inflight = {}
  /\ nextId = 1
  /\ processorCalls = <<>>
  /\ stopCalled = FALSE
  /\ discarded = {}
  /\ ret = Ret("constructor", "resolved")

Init == InitWith({TestBatchTimeout})

\* ------------------------------------------------- code-level conditions
\* variants of the definitions below, each with one plausible slip
submitGuardMissing == FALSE
triggerReachedStrict(js, mem) ==
  Len(js) > batchSize
  \/ (autoProcessOnMemoryLimit /\ mem >= memoryLimit * BytesPerMB)
triggerReachedNoMemory(js, mem) == Len(js) >= batchSize
triggerReachedEarly(js, mem) ==
  Len(js) >= batchSize - 1
  \/ (autoProcessOnMemoryLimit /\ mem >= memoryLimit * BytesPerMB)
swapKeepsJobs(js) == js
stopKeepsJobs == jobs

clearTimeoutNoop(tm, id) == tm
jobsEmptyNever(js) == FALSE

\* lines 109, 122-124, 138-140, 186-187: if (this.timeoutId) clearTimeout(this.timeoutId),
\* on the pending timers tm
clearTimeout(tm, id) == tm \ {id}

\* line 190: if (this.jobs.size === 0)
jobsEmpty(js) == js = <<>>

\* line 84: if (this.shutDown) return Promise.reject(...)
submitGuard == shutDown

\* line 104: the size / memory trigger condition
triggerReached(js, mem) ==
  Len(js) >= batchSize
  \/ (autoProcessOnMemoryLimit /\ mem >= memoryLimit * BytesPerMB)

\* line 196: this.jobs = new Map(), after the snapshot js was taken
swapJobs(js) == <<>>

\* line 137: this.jobs = new Map()
stopJobs == <<>>

\* ------------------------------------------------------------ processJobs
\* processJobs up to its first suspension (lines 183-198), run on the job
\* list js and the pending timers tm that its caller leaves behind.
\* caller is who awaits (or drops) the returned promise; r is the outcome of
\* the calling operation when the invocation suspends.
processJobs(caller, js, tm, r) ==
  /\ timeoutId' = NoTimer
  /\ armed' = clearTimeout(tm, timeoutId)
  /\ currentMemory' = 0
  /\ IF jobsEmpty(js)
       THEN /\ isProcessing' = FALSE
            /\ jobs' = js
            /\ UNCHANGED <<processorCalls, inflight>>
            /\ ret' = IF caller = "trigger" THEN r ELSE Ret(caller, "resolved")
       ELSE /\ isProcessing' = TRUE
            /\ jobs' = swapJobs(js)
            /\ processorCalls' = Append(processorCalls, Keys(js))
            /\ inflight' = inflight \cup {[snap |-> Keys(js), caller |-> caller, pc |-> "await"]}
            /\ ret' = r

\* ------------------------------------------------------ processingShedule
\* lines 101-113, run on the job list js and memory mem that submit produced
processingShedule(js, mem) ==
  IF isProcessing
    THEN /\ jobs' = js
         /\ currentMemory' = mem
         /\ ret' = Ret("submit", "resolved")
         /\ UNCHANGED <<timeoutId, armed, isProcessing, processorCalls, inflight>>
    ELSE IF triggerReached(js, mem)
      THEN processJobs("trigger", js, armed, Ret("submit", "resolved"))
      ELSE /\ \E t \in TimerIds :
                /\ t = Min(TimerIds \ clearTimeout(armed, timeoutId))
                /\ timeoutId' = t
                /\ armed' = clearTimeout(armed, timeoutId) \cup {t}
           /\ jobs' = js
           /\ currentMemory' = mem
           /\ ret' = Ret("submit", "resolved")
           /\ UNCHANGED <<isProcessing, processorCalls, inflight>>

\* ----------------------------------------------------------------- submit
\* lines 82-94
Submit(bytes) ==
  IF submitGuard
    THEN /\ ret' = Ret("submit", "rejected")
         /\ UNCHANGED <<config, jobs, currentMemory, finishedJobs, timeoutId, shutDown,
                        isProcessing, armed, inflight, nextId, processorCalls,
                        stopCalled, discarded>>
    ELSE /\ nextId <= MaxJobs
         /\ nextId' = nextId + 1
         /\ processingShedule(Append(jobs, [id |-> nextId, bytes |-> bytes]),
                              currentMemory + calculateMemory(bytes))
         /\ UNCHANGED <<config, finishedJobs, shutDown, stopCalled, discarded>>

\* ------------------------------------------------------------ timer expiry
\* the callback of line 110: () => this.processJobs(), promise dropped
TimerExpire(t) ==
  /\ t \in armed
  /\ processJobs("timer", jobs, armed \ {t}, Ret("timer", "pending"))
  /\ UNCHANGED <<config, finishedJobs, shutDown, nextId, stopCalled, discarded>>

\* --------------------------------------------------------------- shutdown
\* lines 120-128
Shutdown ==
  /\ shutDown' = TRUE
  /\ IF Len(jobs) > 0
       THEN processJobs("shutdown", jobs, clearTimeout(armed, timeoutId), Ret("shutdown", "pending"))
       ELSE /\ armed' = clearTimeout(armed, timeoutId)
            /\ ret' = Ret("shutdown", "resolved")
            /\ UNCHANGED <<jobs, currentMemory, timeoutId, isProcessing,
                           processorCalls, inflight>>
  /\ UNCHANGED <<config, finishedJobs, nextId, stopCalled, discarded>>

\* ------------------------------------------------------------------- stop
\* lines 135-141
Stop ==
  /\ shutDown' = TRUE
  /\ jobs' = stopJobs
  /\ armed' = clearTimeout(armed, timeoutId)
  /\ stopCalled' = TRUE
  /\ discarded' = discarded \cup pending
  /\ ret' = Ret("stop", "resolved")
  /\ UNCHANGED <<config, currentMemory, finishedJobs, timeoutId, isProcessing,
                 inflight, nextId, processorCalls>>

\* ----------------------------------------------------------- forceProcess
\* lines 151-153
ForceProcess ==
  /\ processJobs("forceProcess", jobs, armed, Ret("forceProcess", "pending"))
  /\ UNCHANGED <<config, finishedJobs, shutDown, nextId, stopCalled, discarded>>

\* ------------------------------------------- batchProcessor promise settles
\* the promise fulfils: the .then callback of lines 199-203 records the results
ProcessorResolve(inv) ==
  /\ inv \in inflight /\ inv.pc = "await"
  /\ finishedJobs' = finishedJobs \cup Range(inv.snap)
  /\ inflight' = (inflight \ {inv}) \cup {[inv EXCEPT !.pc = "recorded"]}
  /\ ret' = Ret("batchProcessor", "resolved")
  /\ UNCHANGED <<config, jobs, currentMemory, timeoutId, shutDown, isProcessing,
                 armed, nextId, processorCalls, stopCalled, discarded>>

\* the await of line 198 resumes: lines 204-205, then the caller is resolved
ProcessJobsResume(inv) ==
  /\ inv \in inflight /\ inv.pc = "recorded"
  /\ jobs' = <<>>
  /\ isProcessing' = FALSE
  /\ inflight' = inflight \ {inv}
  /\ ret' = Ret(inv.caller, "resolved")
  /\ UNCHANGED <<config, currentMemory, finishedJobs, timeoutId, shutDown, armed,
                 nextId, processorCalls, stopCalled, discarded>>

\* variant: every rejection is caught and logged
rejectionAlwaysLogged(caller) == "logged"

\* where the rejection of the promise returned by processJobs ends up:
\* line 105 .catch(console.error), line 110 (promise dropped),
\* lines 126 and 152 (awaited by shutdown / forceProcess)
rejectionOutcome(caller) ==
  CASE caller = "trigger" -> "logged"
    [] caller = "timer" -> "unhandled"
    [] OTHER -> "rejected"

\* the promise rejects: the await throws, lines 204-205 are skipped and the
\* rejection reaches the caller: .catch(console.error) for the size/memory
\* trigger, nobody for the timer callback, the awaiting caller otherwise
ProcessorReject(inv) ==
  /\ inv \in inflight /\ inv.pc = "await"
  /\ inflight' = inflight \ {inv}
  /\ ret' = Ret(inv.caller, rejectionOutcome(inv.caller))
  /\ UNCHANGED <<config, jobs, currentMemory, finishedJobs, timeoutId, shutDown,
                 isProcessing, armed, nextId, processorCalls, stopCalled, discarded>>

\* ------------------------------------------------------------------- Next
Next ==
  \/ \E bytes \in PayloadBytes : Submit(bytes)
  \/ \E t \in TimerIds : TimerExpire(t)
  \/ Shutdown
  \/ Stop
  \/ ForceProcess
  \/ \E inv \in inflight : ProcessorResolve(inv)
  \/ \E inv \in inflight : ProcessJobsResume(inv)
  \/ \E inv \in inflight : ProcessorReject(inv)

Spec == Init /\ [][Next]_vars

TypeOK ==
  /\ batchSize \in 1..MaxBatchSize
  /\ timeoutId \in TimerIds \cup {NoTimer}
  /\ armed \subseteq TimerIds
  /\ shutDown \in BOOLEAN /\ isProcessing \in BOOLEAN
  /\ nextId \in 1..(MaxJobs + 1)
  /\ finishedJobs \subseteq JobIds
  /\ currentMemory \in Nat


\* the environment the latency claim assumes: stop() is never called and
\* batchProcessor never fails; timers expire and promises settle (event loop)
NextLive ==
  \/ \E bytes \in PayloadBytes : Submit(bytes)
  \/ \E t \in TimerIds : TimerExpire(t)
  \/ Shutdown
  \/ ForceProcess
  \/ \E inv \in inflight : ProcessorResolve(inv)
  \/ \E inv \in inflight : ProcessJobsResume(inv)

LiveSpec ==
  /\ Init /\ [][NextLive]_vars
  /\ WF_vars(\E t \in TimerIds : TimerExpire(t))
  /\ WF_vars(\E inv \in inflight : ProcessorResolve(inv))
  /\ WF_vars(\E inv \in inflight : ProcessJobsResume(inv))

\* ================================================================= claims

\* C1: single-flight -- at most one batchProcessor invocation is outstanding
\* in every reachable state.
SingleFlight == Cardinality(outstanding) <= 1

\* C2: a job leaves this.jobs only by being part of a snapshot handed to
\* batchProcessor or by stop().
NoSilentDrop ==
  [][\A j \in pending :
       j \notin pending' => (j \in handed' \/ ret'.op = "stop")]_vars

\* C3: when shutdown() resolves and stop() was never called, every accepted
\* job has been handed to batchProcessor.
GracefulDrain ==
  (ret = Ret("shutdown", "resolved") /\ ~stopCalled) => accepted \subseteq handed

\* C4: when shutdown() resolves, no batchProcessor invocation is outstanding.
ShutdownWaitsForInFlight ==
  ret = Ret("shutdown", "resolved") => outstanding = {}

\* C5: shutdown() and stop() set shutDown, shutDown is never reset, every
\* submit made while it is set is rejected and leaves jobs, currentMemory and
\* the timer alone, and no step adds a job to this.jobs once it is set.
ShutdownIsTerminal ==
  [][/\ ret'.op \in {"shutdown", "stop"} => shutDown'
     /\ shutDown =>
          /\ shutDown'
          /\ pending' \subseteq pending
          /\ ret'.op = "submit" =>
               /\ ret'.res = "rejected"
               /\ UNCHANGED <<jobs, currentMemory, timeoutId, armed, nextId>>]_vars

ShutdownIsTerminalWitness ==
  shutDown /\ ret = Ret("submit", "rejected") /\ nextId > 1

\* C6: after stop(), no step hands a discarded job to batchProcessor and
\* jobCount() is 0.
HardStop ==
  [][stopCalled' =>
       /\ (handed' \ handed) \cap discarded' = {}
       /\ handed' \cap discarded' = {}
       /\ jobCount' = 0]_vars

HardStopWitness ==
  stopCalled /\ discarded # {} /\ ret = Ret("forceProcess", "resolved")

\* C7: with stop() never called and batchProcessor never failing, every
\* accepted job is eventually handed to batchProcessor with no further call.
BoundedLatency ==
  \A j \in JobIds : (j \in accepted) ~> (j \in handed)

\* C8: every snapshot handed to batchProcessor holds at most batchSize jobs.
BatchSizeIsMax ==
  \A i \in 1..Len(processorCalls) : Len(processorCalls[i]) <= batchSize

\* C9: no job id is in two snapshots (nor twice in one), and a job that was
\* in a snapshot is not in this.jobs.
AtMostOnce ==
  /\ \A i, k \in 1..Len(processorCalls) :
       i # k => Range(processorCalls[i]) \cap Range(processorCalls[k]) = {}
  /\ \A i \in 1..Len(processorCalls) :
       Cardinality(Range(processorCalls[i])) = Len(processorCalls[i])
  /\ pending \cap handed = {}

AtMostOnceWitness ==
  /\ Len(processorCalls) >= 2
  /\ ret.res \in {"logged", "rejected", "unhandled"}
  /\ jobs # <<>>

\* C10: an accepted submit that brings this.jobs to batchSize or more while
\* isProcessing is false hands all pending jobs to batchProcessor in that
\* step and leaves this.jobs empty; when that fire completes and nothing was
\* submitted since, jobCount() is 0.
SizeTrigger ==
  [][/\ (nextId' = nextId + 1 /\ ~isProcessing /\ Len(jobs) + 1 >= batchSize) =>
          /\ jobs' = <<>>
          /\ Len(processorCalls') = Len(processorCalls) + 1
          /\ Range(processorCalls'[Len(processorCalls')]) = pending \cup {nextId}
          /\ \E inv \in outstanding' \ inflight :
               inv.snap = processorCalls'[Len(processorCalls')]
     /\ \A inv \in inflight :
          ( /\ inv.caller = "trigger"
            /\ Len(inv.snap) >= batchSize
            /\ \A x \in inflight' : x.snap # inv.snap
            /\ (nextId - 1) \in Range(inv.snap)
            /\ nextId' = nextId ) => jobCount' = 0]_vars

SizeTriggerWitness ==
  /\ ~autoProcessOnMemoryLimit
  /\ batchSize = 2 /\ nextId = 3
  /\ Len(processorCalls) = 1 /\ Len(processorCalls[1]) = 2
  /\ ret = Ret("trigger", "resolved")
  /\ jobCount = 0

\* the event loop with a batchProcessor that may fail: timers expire, the
\* batchProcessor promise settles one way or the other, processJobs resumes
FairSpec ==
  /\ Init /\ [][Next]_vars
  /\ WF_vars(\E t \in TimerIds : TimerExpire(t))
  /\ WF_vars(\E inv \in inflight : ProcessorResolve(inv) \/ ProcessorReject(inv))
  /\ WF_vars(\E inv \in inflight : ProcessJobsResume(inv))

\* the state right after an accepted submit on a scheduler that is not shut
\* down and has no batch in flight, with fewer than batchSize jobs pending and
\* the memory trigger not met; j is pending and n - 1 jobs were accepted
TimeoutTriggerCase(j, n) ==
  /\ ~shutDown
  /\ inflight = {}
  /\ ret = Ret("submit", "resolved")
  /\ nextId = n
  /\ j \in pending
  /\ Len(jobs) < batchSize
  /\ ~(autoProcessOnMemoryLimit /\ currentMemory >= memoryLimit * BytesPerMB)

\* C11: from such a state, unless a further call is made (submit, shutdown,
\* stop, forceProcess), the pending jobs are eventually handed to
\* batchProcessor and jobCount() is 0.
TimeoutTrigger ==
  \A j \in JobIds : \A n \in 1..(MaxJobs + 1) :
    TimeoutTriggerCase(j, n) ~>
      \/ j \in handed /\ jobCount = 0
      \/ nextId # n
      \/ ret.op \in {"shutdown", "stop", "forceProcess"}

\* C12: with autoProcessOnMemoryLimit, an accepted submit that brings
\* currentMemory to memoryLimit or more while isProcessing is false hands all
\* pending jobs to batchProcessor in that step, whatever this.jobs.size is;
\* without autoProcessOnMemoryLimit a submit fires only when this.jobs.size
\* reaches batchSize.
MemoryTrigger ==
  [][\A b \in PayloadBytes :
       (Submit(b) /\ ~shutDown /\ ~isProcessing) =>
          /\ ( /\ autoProcessOnMemoryLimit
               /\ currentMemory + calculateMemory(b) >= memoryLimit * BytesPerMB ) =>
                 /\ jobs' = <<>>
                 /\ processorCalls' = Append(processorCalls, Append(Keys(jobs), nextId))
                 /\ \E inv \in outstanding' \ inflight : inv.snap = Append(Keys(jobs), nextId)
          /\ ( /\ ~autoProcessOnMemoryLimit
               /\ Len(jobs) + 1 < batchSize ) =>
                 /\ processorCalls' = processorCalls
                 /\ inflight' = inflight
                 /\ Len(jobs') = Len(jobs) + 1]_vars

\* a memory-triggered fire with fewer than batchSize jobs is outstanding
MemoryTriggerWitness ==
  /\ autoProcessOnMemoryLimit
  /\ ret = Ret("submit", "resolved")
  /\ \E inv \in outstanding : inv.caller = "trigger" /\ Len(inv.snap) < batchSize

\* C13 as stated: a submit accepted when jobCount() equals the number of
\* accepted jobs, and keeping that number below batchSize, leaves jobCount()
\* equal to the number of accepted jobs (no timer expiry is part of the step).
JobCountBelowBatchSize ==
  [][(nextId' = nextId + 1 /\ jobCount = nextId - 1 /\ nextId < batchSize)
       => jobCount' = nextId' - 1]_vars

\* C13 amended: the same, for a submit that does not meet the memory trigger.
JobCountBelowTriggers ==
  [][\A b \in PayloadBytes :
       ( /\ Submit(b) /\ nextId' = nextId + 1
         /\ jobCount = nextId - 1
         /\ nextId < batchSize
         /\ ~( /\ autoProcessOnMemoryLimit
               /\ currentMemory + calculateMemory(b) >= memoryLimit * BytesPerMB ) )
       => jobCount' = nextId' - 1]_vars

JobCountBelowTriggersWitness ==
  /\ ret = Ret("submit", "resolved")
  /\ autoProcessOnMemoryLimit
  /\ processorCalls = <<>>
  /\ nextId > 1 /\ nextId - 1 < batchSize
  /\ jobCount = nextId - 1

\* C14: forceProcess() on an empty this.jobs does not call batchProcessor,
\* resolves, and leaves this.jobs, isProcessing and shutDown as they were.
ForceProcessEmptyNoOp ==
  [][(ForceProcess /\ jobs = <<>>) =>
       /\ processorCalls' = processorCalls
       /\ inflight' = inflight
       /\ ret' = Ret("forceProcess", "resolved")
       /\ jobs' = jobs
       /\ isProcessing' = isProcessing
       /\ shutDown' = shutDown]_vars

\* C15: when a batch-fire ends, by batchProcessor returning or raising,
\* isProcessing is false.
FireEndClearsFlag ==
  [][\A inv \in inflight :
       (ProcessJobsResume(inv) \/ ProcessorReject(inv)) => ~isProcessing']_vars

\* C16: when batchProcessor raises during a fire started by the size or
\* memory trigger or by the timer, the failure is logged and swallowed and
\* the jobs of the batch are not in this.jobs.
UnattendedFailureSwallowed ==
  [][\A inv \in inflight :
       (ProcessorReject(inv) /\ inv.caller \in {"trigger", "timer"}) =>
          /\ ret'.res = "logged"
          /\ Range(inv.snap) \cap pending' = {}]_vars

\* C17: when batchProcessor raises during a fire started by forceProcess()
\* or shutdown(), that call is rejected and the jobs of the batch are not in
\* this.jobs.
AwaitedFailureRejects ==
  [][\A inv \in inflight :
       (ProcessorReject(inv) /\ inv.caller \in {"forceProcess", "shutdown"}) =>
          /\ ret' = Ret(inv.caller, "rejected")
          /\ Range(inv.snap) \cap pending' = {}]_vars

AwaitedFailureRejectsWitness ==
  /\ ret = Ret("forceProcess", "rejected")
  /\ handed # {}
  /\ jobs # <<>>

\* the scheduler constructed with each configured batchTimeout
CtorSpec == InitWith(TimeoutConfigs) /\ [][Next]_vars

\* C18: this.batchTimeout is the configured value when that is between 1 and
\* 100000, 100000 when it is larger, and 1000 when it is absent.
EffectiveBatchTimeout ==
  /\ cfgTimeout \in 1..TimeoutCap => batchTimeout = cfgTimeout
  /\ cfgTimeout > TimeoutCap => batchTimeout = TimeoutCap
  /\ cfgTimeout = Undefined => batchTimeout = DefaultBatchTimeout

\* C19: while a snapshot has been handed to batchProcessor and its result is
\* not yet recorded, isProcessing is true.
FlagTracksInFlight == outstanding # {} => isProcessing

\* the sum of calculateMemory([job]) over the jobs of js
RECURSIVE SumMemory(_)
SumMemory(js) ==
  IF js = <<>> THEN 0 ELSE calculateMemory(Head(js).bytes) + SumMemory(Tail(js))

\* C20: on a scheduler that is not shut down, currentMemory is the sum of the
\* per-job estimates of the jobs in this.jobs.
MemoryMatchesPending == ~shutDown => currentMemory = SumMemory(jobs)

\* C21: at most one debounce timer is armed; a step that hands a snapshot to
\* batchProcessor leaves no timer armed; once shutdown() or stop() was called
\* no timer is armed and no timer callback runs.
TimerDiscipline ==
  /\ [](Cardinality(armed) <= 1 /\ (shutDown => armed = {}))
  /\ [][/\ processorCalls' # processorCalls => armed' = {}
        /\ shutDown => \A t \in TimerIds : ~TimerExpire(t)]_vars

\* a timer was armed when shutdown() or stop() was called and is cancelled
TimerDisciplineWitness ==
  shutDown /\ timeoutId # NoTimer /\ armed = {}

\* C22: batchProcessor is never called with an empty snapshot.
NoEmptySnapshot ==
  \A i \in 1..Len(processorCalls) : Len(processorCalls[i]) > 0

\* forceProcess() reached the batch-fire path with nothing pending and
\* batchProcessor was not called
NoEmptySnapshotWitness ==
  /\ ret = Ret("forceProcess", "resolved")
  /\ jobs = <<>>
  /\ processorCalls = <<>>

====
